---- MODULE Spec2Model ----
(***************************************************************************)
(* Model of ragas/experimental/testset/simulators/abstract_qa.py:          *)
(* AbstractQuestionSimulator and ComparativeAbstractQuestionSimulator.     *)
(* generate_scenarios is modelled in three steps (cluster selection,       *)
(* theme/concept batch, flatten + sample + assemble); generate_sample is   *)
(* modelled one awaited call at a time.                                    *)
(***************************************************************************)
EXTENDS Integers, Sequences, FiniteSets

VARIABLES
    family,           \* "theme": AbstractQuestionSimulator, "concept": Comparative...
    n,                \* the requested number of scenarios
    knowledge_graph,  \* [nodes: sequence of nodes, relationships: set of relationships]
    pc,               \* position inside generate_scenarios
    node_clusters,    \* the clusters used for extraction
    num_per_cluster,  \* num_themes / num_concepts
    kw_list,          \* the requests handed to run_async_batch
    batch,            \* what run_async_batch returned (themes / common_concepts)
    cluster_labels,   \* flattened (cluster, label) pairs
    question_styles,  \* sampled styles
    question_lengths, \* sampled lengths
    scenarios,        \* the returned list (distributions / scenarios)
    raised,           \* the exception that left generate_scenarios, or None
    spc,              \* position inside generate_sample
    scenario,         \* the scenario generate_sample runs on
    user_input,       \* the local variable user_input / question
    verdict,          \* what the critic judged: "pass" or "fail"
    calls,            \* the awaited calls made so far, in order, with their question
    sample            \* the returned SingleTurnSample, or None

scen_vars == <<family, n, knowledge_graph, pc, node_clusters, num_per_cluster,
               kw_list, batch, cluster_labels, question_styles,
               question_lengths, scenarios, raised>>
sample_vars == <<spc, scenario, user_input, verdict, calls, sample>>
vars == <<scen_vars, sample_vars>>

----------------------------------------------------------------------------
(* Bounds of the model. *)
MaxNodes == 4
MaxN == 1
MaxRequested == 3
MaxSampled == 4

None == "None"

Min(a, b) == IF a < b THEN a ELSE b

RECURSIVE SortedSeq(_)
SortedSeq(S) ==
    IF S = {} THEN <<>>
    ELSE LET m == CHOOSE x \in S : \A y \in S : x <= y
         IN  <<m>> \o SortedSeq(S \ {m})

RECURSIVE Flatten(_)
Flatten(ss) == IF ss = <<>> THEN <<>> ELSE Head(ss) \o Flatten(Tail(ss))

----------------------------------------------------------------------------
(* Collaborators that live outside abstract_qa.py. *)

Families == {"theme", "concept"}
NodeTypes == {"document", "chunk"}
PropertyNames == {"summary", "keyphrases", "page_content"}
RelationshipProperties == {"cosine_similarity", "summary_cosine_similarity"}
UserInputStyle == <<"REASONING", "SIMPLE", "MULTI_CONTEXT">>
UserInputLength == <<"SHORT", "MEDIUM", "LONG">>

\* Node.get_property / Relationship.get_property.  A property that is absent
\* (get_property returns None) is a name outside the domain of properties.
HasProperty(x, name) == name \in DOMAIN x.properties
get_property(x, name) == x.properties[name]

\* Python truthiness of get_property's result: None and 0 are false.
Truthy(x, name) == HasProperty(x, name) /\ get_property(x, name) # 0

\* KnowledgeGraph.find_clusters: the groups of nodes connected by relationships
\* that satisfy the condition (qualifying: the relationships for which
\* relationship_condition holds), each in node order, in graph traversal
\* order.  A node with no qualifying relationship forms no cluster.
RECURSIVE Reach(_, _, _)
Reach(rels, S, N) ==
    LET T == S \cup {b \in N : \E a \in S : \E r \in rels :
                        {r.source, r.target} = {a, b}}
    IN  IF T = S THEN S ELSE Reach(rels, T, N)

find_clusters(kg, qualifying) ==
    LET N == 1..Len(kg.nodes)
        rels == kg.relationships \cap qualifying
        comp == [v \in N |-> Reach(rels, {v}, N)]
        roots == SortedSeq({v \in N : /\ Cardinality(comp[v]) > 1
                                      /\ \A u \in comp[v] : v <= u})
    IN  [i \in 1..Len(roots) |-> SortedSeq(comp[roots[i]])]

\* random.choices(population, k=k) against the ambient random state: k draws
\* with replacement.  The state of the ambient generator is not known, so the
\* call may return any sequence of k members of the population.
random_choices(population, k) ==
    [1..k -> {population[i] : i \in 1..Len(population)}]

\* run_async_batch: one result per request, in submission order; a request
\* that fails leaves Failure in its slot, the others keep their result.  A
\* well-formed result (Themes / Concepts) carries 0..num labels.
Failure == [failed |-> TRUE, labels |-> <<>>]
Generated(k) == [failed |-> FALSE, labels |-> [j \in 1..k |-> j]]
run_async_batch(kwargs_list, num) ==
    [1..Len(kwargs_list) -> {Failure} \cup {Generated(k) : k \in 0..num}]

----------------------------------------------------------------------------
(* generate_scenarios *)

NodeType(kg, v) == kg.nodes[v].type

\* node_clusters_new: one singleton cluster per node of the given type.
SingletonClusters(kg, type) ==
    LET keep == SortedSeq({v \in 1..Len(kg.nodes) : NodeType(kg, v) = type})
    IN  [i \in 1..Len(keep) |-> <<keep[i]>>]

\* Mutant of Slice: the fallback list is not truncated to n.
SliceAll(s, k) == s

\* Python's s[:k] for k >= 0.
Slice(s, k) == SubSeq(s, 1, Min(k, Len(s)))

ThemeCondition(rel) == Truthy(rel, "cosine_similarity")
ConceptCondition(rel) == Truthy(rel, "summary_cosine_similarity")
ThemeQualifying(kg) == {rel \in kg.relationships : ThemeCondition(rel)}
ConceptQualifying(kg) == {rel \in kg.relationships : ConceptCondition(rel)}

\* "filter out nodes that are not chunks"
ChunkClusters(kg, clusters) ==
    LET AllChunks(c) == \A i \in 1..Len(c) : NodeType(kg, c[i]) = "chunk"
    IN  SelectSeq(clusters, AllChunks)

\* Mutant of ThemeClusters: the empty fallback list is not rejected.
ThemeClustersNoRaise(k, kg) ==
    LET found == ChunkClusters(kg, find_clusters(kg, ThemeQualifying(kg)))
        new == SingletonClusters(kg, "chunk")
    IN  IF Len(found) # 0 THEN [raised |-> None, clusters |-> found]
        ELSE [raised |-> None, clusters |-> Slice(new, k)]

\* AbstractQuestionSimulator.generate_scenarios up to node_clusters.
ThemeClusters(k, kg) ==
    LET found == ChunkClusters(kg, find_clusters(kg, ThemeQualifying(kg)))
        new == SingletonClusters(kg, "chunk")
    IN  IF Len(found) # 0 THEN [raised |-> None, clusters |-> found]
        ELSE IF Len(new) = 0 THEN [raised |-> "ValueError", clusters |-> <<>>]
        ELSE [raised |-> None, clusters |-> Slice(new, k)]

\* ComparativeAbstractQuestionSimulator.generate_scenarios up to node_clusters.
ConceptClusters(k, kg) ==
    LET found == find_clusters(kg, ConceptQualifying(kg))
        new == SingletonClusters(kg, "document")
    IN  IF Len(found) # 0 THEN [raised |-> None, clusters |-> found]
        ELSE IF Len(new) = 0 THEN [raised |-> "ValueError", clusters |-> <<>>]
        ELSE [raised |-> None, clusters |-> Slice(new, k)]

\* Mutants of Ceil: integer division, and rounding up once too often.
CeilFloor(k, num_clusters) == k \div num_clusters
CeilPlusOne(k, num_clusters) == (k \div num_clusters) + 1

\* math.ceil(k / num_clusters), for num_clusters > 0.
Ceil(k, num_clusters) ==
    IF k % num_clusters = 0 THEN k \div num_clusters
    ELSE (k \div num_clusters) + 1

\* The texts of one request: the non-None property of each node, in order.
ClusterSummaries(kg, cluster) ==
    LET Has(v) == HasProperty(kg.nodes[v], "summary")
        with == SelectSeq(cluster, Has)
    IN  [i \in 1..Len(with) |-> get_property(kg.nodes[with[i]], "summary")]

ClusterKeyphrases(kg, cluster) ==
    LET Has(v) == HasProperty(kg.nodes[v], "keyphrases")
        with == SelectSeq(cluster, Has)
    IN  Flatten([i \in 1..Len(with) |->
                    get_property(kg.nodes[with[i]], "keyphrases")])

ThemeRequests(kg, clusters, num_themes) ==
    [i \in 1..Len(clusters) |->
        [summaries |-> ClusterSummaries(kg, clusters[i]),
         num_themes |-> num_themes]]

ConceptRequests(kg, clusters, num_concepts) ==
    [i \in 1..Len(clusters) |->
        [keyphrases |-> ClusterKeyphrases(kg, clusters[i]),
         num_concepts |-> num_concepts]]

\* zip(node_clusters, results) followed by the inner loop over the labels.
FlattenPairs(clusters, results) ==
    Flatten([i \in 1..Min(Len(clusters), Len(results)) |->
                [j \in 1..Len(results[i].labels) |->
                    <<clusters[i], results[i].labels[j]>>]])

\* k of both random.choices calls.
SampleCount(num_clusters, num, pairs) == num_clusters * num

\* The outcomes of the two random.choices calls.  AbstractQuestionSimulator
\* draws the styles, then the lengths; ComparativeAbstractQuestionSimulator
\* draws the lengths, then the styles.
ThemeSample(k) ==
    {[styles |-> st, lengths |-> ln] :
        st \in random_choices(UserInputStyle, k),
        ln \in random_choices(UserInputLength, k)}

ConceptSample(k) ==
    {[lengths |-> ln, styles |-> st] :
        ln \in random_choices(UserInputLength, k),
        st \in random_choices(UserInputStyle, k)}

Sample(f, k) == IF f = "theme" THEN ThemeSample(k) ELSE ConceptSample(k)

\* zip(pairs, styles, lengths): stops at the shortest, never raises.
ZipScenarios(pairs, styles, lengths) ==
    [i \in 1..Min(Len(pairs), Min(Len(styles), Len(lengths))) |->
        [label |-> pairs[i][2], nodes |-> pairs[i][1],
         style |-> styles[i], length |-> lengths[i]]]

----------------------------------------------------------------------------
(* The inputs: the graphs of MaxNodes nodes in which all nodes, or all but   *)
(* the first, carry every property, and whose relationships link nodes that  *)
(* are neighbours in node order and all carry the same similarity property;  *)
(* every n up to MaxN; both families.                                        *)

NodeProperties(v, full) ==
    IF full THEN [p \in PropertyNames |-> IF p = "keyphrases" THEN <<v>> ELSE v]
    ELSE [p \in {} |-> v]

Graphs ==
    { [nodes |-> [v \in 1..MaxNodes |->
                    [type |-> types[v], properties |-> NodeProperties(v, v # bare)]],
       relationships |-> {[source |-> e[1], target |-> e[2],
                           properties |-> [q \in {p} |-> 1]] : e \in edges}] :
        types \in [1..MaxNodes -> NodeTypes],
        bare \in 0..1,
        p \in RelationshipProperties,
        edges \in SUBSET {<<v, v + 1>> : v \in 1..(MaxNodes - 1)} }

ScenInit ==
    /\ family \in Families
    /\ n \in 0..MaxN
    /\ knowledge_graph \in Graphs
    /\ pc = "start"
    /\ node_clusters = <<>>
    /\ num_per_cluster = 0
    /\ kw_list = <<>>
    /\ batch = <<>>
    /\ cluster_labels = <<>>
    /\ question_styles = <<>>
    /\ question_lengths = <<>>
    /\ scenarios = <<>>
    /\ raised = None

SampleIdle ==
    /\ spc = "idle"
    /\ scenario = None
    /\ user_input = None
    /\ verdict = None
    /\ calls = <<>>
    /\ sample = None

\* Lines up to node_clusters = node_clusters_new[:n]: find, filter, fall back.
SelectClusters ==
    /\ pc = "start"
    /\ LET sel == IF family = "theme" THEN ThemeClusters(n, knowledge_graph)
                  ELSE ConceptClusters(n, knowledge_graph)
       IN  /\ node_clusters' = sel.clusters
           /\ raised' = sel.raised
           /\ pc' = IF sel.raised = None THEN "clustered" ELSE "raised"
    /\ UNCHANGED <<family, n, knowledge_graph, num_per_cluster, kw_list, batch,
                   cluster_labels, question_styles, question_lengths, scenarios>>
    /\ UNCHANGED sample_vars

\* num_clusters, num_themes / num_concepts, kw_list and the run_async_batch call.
ExtractLabels ==
    /\ pc = "clustered"
    /\ IF Len(node_clusters) = 0
       THEN /\ raised' = "ZeroDivisionError"
            /\ pc' = "raised"
            /\ UNCHANGED <<num_per_cluster, kw_list, batch>>
       ELSE LET num == Ceil(n, Len(node_clusters))
                reqs == IF family = "theme"
                        THEN ThemeRequests(knowledge_graph, node_clusters, num)
                        ELSE ConceptRequests(knowledge_graph, node_clusters, num)
            IN  /\ num_per_cluster' = num
                /\ kw_list' = reqs
                /\ batch' \in run_async_batch(reqs, num)
                /\ pc' = "batched"
                /\ UNCHANGED raised
    /\ UNCHANGED <<family, n, knowledge_graph, node_clusters, cluster_labels,
                   question_styles, question_lengths, scenarios>>
    /\ UNCHANGED sample_vars

\* Flatten the (cluster, label) pairs, sample styles and lengths, zip.
\* Reading .themes / .concepts of a failed slot raises AttributeError.
Assemble ==
    /\ pc = "batched"
    /\ IF \E i \in 1..Len(batch) : batch[i] = Failure
       THEN /\ raised' = "AttributeError"
            /\ pc' = "raised"
            /\ UNCHANGED <<cluster_labels, question_styles, question_lengths,
                           scenarios>>
       ELSE LET pairs == FlattenPairs(node_clusters, batch)
                k == SampleCount(Len(node_clusters), num_per_cluster, pairs)
            IN  \E drawn \in Sample(family, k) :
                /\ cluster_labels' = pairs
                /\ question_styles' = drawn.styles
                /\ question_lengths' = drawn.lengths
                /\ scenarios' = ZipScenarios(pairs, drawn.styles, drawn.lengths)
                /\ pc' = "done"
                /\ UNCHANGED raised
    /\ UNCHANGED <<family, n, knowledge_graph, node_clusters, num_per_cluster,
                   kw_list, batch>>
    /\ UNCHANGED sample_vars

Init == ScenInit /\ SampleIdle
Next == SelectClusters \/ ExtractLabels \/ Assemble
Spec == Init /\ [][Next]_vars

\* The end-to-end scenario of the theme family: three chunk nodes, pairwise
\* linked by a relationship with a cosine_similarity, each with a summary
\* (followed by document nodes without relationships), and n = 2.
TriangleGraphs ==
    { [nodes |-> [v \in 1..(3 + docs) |->
                    [type |-> IF v <= 3 THEN "chunk" ELSE "document",
                     properties |-> NodeProperties(v, TRUE)]],
       relationships |-> {[source |-> e[1], target |-> e[2],
                           properties |-> [q \in {"cosine_similarity"} |-> 1]] :
                            e \in {<<1, 2>>, <<1, 3>>, <<2, 3>>}}] :
        docs \in 0..(MaxNodes - 3) }

TriangleInit ==
    /\ family = "theme"
    /\ n = 2
    /\ knowledge_graph \in TriangleGraphs
    /\ pc = "start"
    /\ node_clusters = <<>>
    /\ num_per_cluster = 0
    /\ kw_list = <<>>
    /\ batch = <<>>
    /\ cluster_labels = <<>>
    /\ question_styles = <<>>
    /\ question_lengths = <<>>
    /\ scenarios = <<>>
    /\ raised = None
    /\ SampleIdle

TriangleSpec == TriangleInit /\ [][Next]_vars

\* The inputs on which cluster selection and the per-cluster number are
\* examined with n up to MaxRequested: the members of Graphs in which every
\* node carries every property, the documents are the first docs nodes and
\* the chunks follow them, and the relationships are none or link the nodes
\* in pairs (1-2, 3-4, ...).
ClusterGraphs ==
    { [nodes |-> [v \in 1..MaxNodes |->
                    [type |-> IF v <= docs THEN "document" ELSE "chunk",
                     properties |-> NodeProperties(v, TRUE)]],
       relationships |-> {[source |-> e[1], target |-> e[2],
                           properties |-> [q \in {p} |-> 1]] : e \in edges}] :
        docs \in 0..MaxNodes,
        p \in RelationshipProperties,
        edges \in {{}, {<<v, v + 1>> : v \in {u \in 1..(MaxNodes - 1) : u % 2 = 1}}} }

\* k of the random.choices calls that a run on (f, k, kg) makes, 0 if the run
\* raises before them.
SampledBy(f, k, kg) ==
    LET sel == IF f = "theme" THEN ThemeClusters(k, kg) ELSE ConceptClusters(k, kg)
        num_clusters == Len(sel.clusters)
    IN  IF num_clusters = 0 THEN 0
        ELSE SampleCount(num_clusters, Ceil(k, num_clusters), <<>>)

\* The runs whose sampled sequences have at most MaxSampled elements.
ClusterInit ==
    /\ family \in Families
    /\ n \in 0..MaxRequested
    /\ knowledge_graph \in ClusterGraphs
    /\ SampledBy(family, n, knowledge_graph) <= MaxSampled
    /\ pc = "start"
    /\ node_clusters = <<>>
    /\ num_per_cluster = 0
    /\ kw_list = <<>>
    /\ batch = <<>>
    /\ cluster_labels = <<>>
    /\ question_styles = <<>>
    /\ question_lengths = <<>>
    /\ scenarios = <<>>
    /\ raised = None
    /\ SampleIdle

ClusterSpec == ClusterInit /\ [][Next]_vars

----------------------------------------------------------------------------
(* generate_sample *)

\* QASimulator.critic_question: True when the critic passes the question.
critic_question(judgement) == judgement = "pass"

\* AbstractQuestionSimulator: "if await self.critic_question(user_input):"
ThemeRevises(critic_result) == critic_result

\* Comparative...: "if not await self.critic_question(question):"
ConceptRevises(critic_result) == ~critic_result

Revises(f, critic_result) ==
    IF f = "theme" THEN ThemeRevises(critic_result)
    ELSE ConceptRevises(critic_result)

\* Mutant of AnswerArgument: the answer is generated from the draft.
AnswerArgumentDraft(question) == "draft"

\* The question handed to generate_answer: the local variable as it stands.
AnswerArgument(question) == question

\* reference_contexts: the non-None property of each node, in node order.
ContextProperty(f) == IF f = "theme" THEN "page_content" ELSE "summary"
ReferenceContexts(kg, nodes, name) ==
    LET Has(v) == HasProperty(kg.nodes[v], name)
        with == SelectSeq(nodes, Has)
    IN  [i \in 1..Len(with) |-> get_property(kg.nodes[with[i]], name)]

\* The SingleTurnSample that is returned.
SingleTurnSample(question, answer, contexts) ==
    [user_input |-> question, reference |-> answer,
     reference_contexts |-> contexts]

Call(op, question) == [op |-> op, question |-> question]

\* The scenarios generate_sample is run on: a cluster that the family's
\* generate_scenarios selects on the graph, a label, a style and a length.
ScenariosOf(f, kg) ==
    LET sel == IF f = "theme" THEN ThemeClusters(MaxN, kg)
               ELSE ConceptClusters(MaxN, kg)
    IN  { [label |-> 1, nodes |-> sel.clusters[i],
           style |-> drawn.styles[1], length |-> drawn.lengths[1]] :
            i \in 1..Len(sel.clusters), drawn \in Sample(f, 1) }

SampleInit ==
    /\ family \in Families
    /\ knowledge_graph \in Graphs
    /\ scenario \in ScenariosOf(family, knowledge_graph)
    /\ n = 0
    /\ pc = "idle"
    /\ node_clusters = <<>>
    /\ num_per_cluster = 0
    /\ kw_list = <<>>
    /\ batch = <<>>
    /\ cluster_labels = <<>>
    /\ question_styles = <<>>
    /\ question_lengths = <<>>
    /\ scenarios = <<>>
    /\ raised = None
    /\ spc = "start"
    /\ user_input = None
    /\ verdict = None
    /\ calls = <<>>
    /\ sample = None

\* An awaited generation call that raises ends this scenario's pipeline.
CallFails(op) ==
    /\ calls' = Append(calls, Call(op, user_input))
    /\ spc' = "failed"
    /\ UNCHANGED <<scenario, user_input, verdict, sample>>

\* Draft: generate_user_input / generate_question_prompt.generate.
GenerateUserInput ==
    /\ spc = "start"
    /\ \/ /\ user_input' = "draft"
          /\ calls' = Append(calls, Call("generate_user_input", user_input))
          /\ spc' = "critic"
          /\ UNCHANGED <<scenario, verdict, sample>>
       \/ CallFails("generate_user_input")
    /\ UNCHANGED scen_vars

\* Critic: critic_question and the branch taken on its result.
CriticQuestion ==
    /\ spc = "critic"
    /\ \/ \E judgement \in {"pass", "fail"} :
            /\ verdict' = judgement
            /\ calls' = Append(calls, Call("critic_question", user_input))
            /\ spc' = IF Revises(family, critic_question(judgement))
                      THEN "revise" ELSE "answer"
            /\ UNCHANGED <<scenario, user_input, sample>>
       \/ CallFails("critic_question")
    /\ UNCHANGED scen_vars

\* Revise: modify_question; its result replaces the question.
ModifyQuestion ==
    /\ spc = "revise"
    /\ \/ /\ user_input' = "revised"
          /\ calls' = Append(calls, Call("modify_question", user_input))
          /\ spc' = "answer"
          /\ UNCHANGED <<scenario, verdict, sample>>
       \/ CallFails("modify_question")
    /\ UNCHANGED scen_vars

\* Answer, then the reference contexts and the returned sample.
GenerateAnswer ==
    /\ spc = "answer"
    /\ \/ LET question == AnswerArgument(user_input)
              contexts == ReferenceContexts(knowledge_graph, scenario.nodes,
                                            ContextProperty(family))
          IN  /\ calls' = Append(calls, Call("generate_answer", question))
              /\ sample' = SingleTurnSample(user_input, <<"answer", question>>,
                                            contexts)
              /\ spc' = "done"
              /\ UNCHANGED <<scenario, user_input, verdict>>
       \/ CallFails("generate_answer")
    /\ UNCHANGED scen_vars

SampleNext == GenerateUserInput \/ CriticQuestion \/ ModifyQuestion \/ GenerateAnswer
SampleSpec == SampleInit /\ [][SampleNext]_vars

----------------------------------------------------------------------------
(* Vocabulary of the properties. *)

RequiredType(f) == IF f = "theme" THEN "chunk" ELSE "document"

\* The nodes of the family's required type, in graph node order.
RequiredNodes == SortedSeq({v \in 1..Len(knowledge_graph.nodes) :
                    NodeType(knowledge_graph, v) = RequiredType(family)})

\* The clusters that cluster discovery yields and the family can use.
UsableClusters ==
    IF family = "theme"
    THEN ChunkClusters(knowledge_graph,
            find_clusters(knowledge_graph, ThemeQualifying(knowledge_graph)))
    ELSE find_clusters(knowledge_graph, ConceptQualifying(knowledge_graph))

Selected == pc \in {"clustered", "batched", "done", "raised"}
Submitted == Len(kw_list) > 0
RequestNum(req) == IF family = "theme" THEN req.num_themes ELSE req.num_concepts
SomeSlotFailed == \E i \in 1..Len(batch) : batch[i] = Failure

Count(op) == Cardinality({i \in 1..Len(calls) : calls[i].op = op})
Ops == [i \in 1..Len(calls) |-> calls[i].op]
IsPrefix(a, b) == Len(a) <= Len(b) /\ \A i \in 1..Len(a) : a[i] = b[i]

----------------------------------------------------------------------------
(* C1.  generate_sample runs Revise (modify_question) exactly when the      *)
(* Critic reports fail on the draft, and skips it when the Critic reports   *)
(* pass, in both families.                                                  *)
C1_ReviseIffCriticFails ==
    (verdict # None) =>
        ((spc = "revise" \/ Count("modify_question") > 0) <=> verdict = "fail")

(* C2.  When generate_scenarios returns, the style sequence and the length  *)
(* sequence each have as many elements as there are flattened               *)
(* (cluster, label) pairs.                                                  *)
C2_SampledPerPair ==
    pc = "done" =>
        /\ Len(question_styles) = Len(cluster_labels)
        /\ Len(question_lengths) = Len(cluster_labels)

(* C3.  Assembly fails whenever the three sequences differ in length: a run *)
(* that returns scenarios had three sequences of equal length and turned    *)
(* every pair and every sampled attribute into a scenario.                  *)
C3_AssemblyRejectsMismatch ==
    pc = "done" =>
        /\ Len(scenarios) = Len(cluster_labels)
        /\ Len(scenarios) = Len(question_styles)
        /\ Len(scenarios) = Len(question_lengths)

(* C4.  For n >= 1, a failed slot in the batch result beside a slot that    *)
(* holds labels does not abort generate_scenarios: nothing is raised, and   *)
(* every label of every other cluster is the label of a returned scenario   *)
(* on that cluster.                                                         *)
C4_FailureIsolated ==
    (/\ n >= 1
     /\ pc \in {"done", "raised"}
     /\ SomeSlotFailed
     /\ \E i \in 1..Len(batch) : Len(batch[i].labels) > 0) =>
        /\ raised = None
        /\ \A i \in 1..Len(batch) : \A j \in 1..Len(batch[i].labels) :
             \E x \in 1..Len(scenarios) :
                /\ scenarios[x].nodes = node_clusters[i]
                /\ scenarios[x].label = batch[i].labels[j]

(* C5.  For n >= 1, when discovery yields no usable cluster and the graph   *)
(* has a node of the required type, the clusters used are the singleton     *)
(* clusters of the first min(n, count) required-type nodes, in node order   *)
(* (stated as: either they are, or discovery yielded a usable cluster).     *)
C5_FallbackSingletons ==
    LET required == RequiredNodes
    IN  (n >= 1 /\ Selected /\ Len(required) > 0) =>
            \/ /\ raised # "ValueError"
               /\ node_clusters =
                    [i \in 1..Min(n, Len(required)) |-> <<required[i]>>]
            \/ Len(UsableClusters) # 0

\* No usable cluster although relationships exist, two required-type nodes
\* that are not the first nodes of the graph, and n above their number.
C5_Witness ==
    /\ pc = "batched"
    /\ n = 3
    /\ Len(UsableClusters) = 0
    /\ Len(RequiredNodes) = 2
    /\ RequiredNodes[1] # 1
    /\ knowledge_graph.relationships # {}
    /\ node_clusters = <<<<RequiredNodes[1]>>, <<RequiredNodes[2]>>>>

(* C6.  When discovery yields no usable cluster and the graph has no node   *)
(* of the required type, the request fails with "no clusters found" before  *)
(* any request is submitted or any attribute sampled, and returns nothing.  *)
C6_NoClustersFound ==
    (Selected /\ Len(RequiredNodes) = 0 /\ Len(UsableClusters) = 0) =>
        /\ pc = "raised"
        /\ raised = "ValueError"
        /\ kw_list = <<>>
        /\ batch = <<>>
        /\ question_styles = <<>>
        /\ question_lengths = <<>>
        /\ scenarios = <<>>

C6_Witness ==
    /\ pc = "raised"
    /\ raised = "ValueError"
    /\ family = "theme"
    /\ Len(find_clusters(knowledge_graph, ThemeQualifying(knowledge_graph))) > 0

(* C7.  Theme family, n = 2, on a graph whose chunk nodes are three, are    *)
(* pairwise linked by a qualifying relationship and each carry a summary.   *)
ChunkNodes == {v \in 1..Len(knowledge_graph.nodes) :
                 NodeType(knowledge_graph, v) = "chunk"}
TriangleOfChunks ==
    /\ family = "theme"
    /\ n = 2
    /\ Cardinality(ChunkNodes) = 3
    /\ \A v \in ChunkNodes : HasProperty(knowledge_graph.nodes[v], "summary")
    /\ \A a \in ChunkNodes : \A b \in ChunkNodes :
         a < b => \E r \in knowledge_graph.relationships :
                     /\ r.source = a /\ r.target = b
                     /\ ThemeCondition(r)
    /\ \A r \in knowledge_graph.relationships :
         r.source \in ChunkNodes /\ r.target \in ChunkNodes

(* C7 as stated: one cluster, num_per_cluster = 1, one request carrying the *)
(* three summaries, and one scenario when the request yields one theme.     *)
C7_TriangleOneThemeEach ==
    (TriangleOfChunks /\ pc \in {"batched", "done"}) =>
        /\ Len(node_clusters) = 1
        /\ num_per_cluster = 1
        /\ Len(kw_list) = 1
        /\ Len(kw_list[1].summaries) = 3
        /\ (pc = "done" /\ Len(batch[1].labels) = 1) => Len(scenarios) = 1

(* C7 amended: one cluster, num_per_cluster = ceil(2 / 1) = 2, one request  *)
(* carrying the three summaries and asking for 2 themes, and exactly one    *)
(* scenario when the request yields one theme.                              *)
C7_TriangleTwoThemes ==
    (TriangleOfChunks /\ pc \in {"batched", "done"}) =>
        /\ Len(node_clusters) = 1
        /\ num_per_cluster = 2
        /\ Len(kw_list) = 1
        /\ Len(kw_list[1].summaries) = 3
        /\ kw_list[1].num_themes = 2
        /\ (pc = "done" /\ Len(batch[1].labels) = 1) => Len(scenarios) = 1

C7_Witness ==
    /\ TriangleOfChunks
    /\ pc = "done"
    /\ Len(batch[1].labels) = 1
    /\ Len(scenarios) = 1

(* C8.  For n >= 1, every cluster for which a request is submitted holds    *)
(* only nodes of the family's required type.                                *)
C8_ClustersOfRequiredType ==
    (n >= 1 /\ Submitted) =>
        \A i \in 1..Len(node_clusters) : \A j \in 1..Len(node_clusters[i]) :
            NodeType(knowledge_graph, node_clusters[i][j]) = RequiredType(family)

(* C9.  generate_sample calls Draft, Critic, optionally Revise, then Answer,*)
(* each at most once and in that order; the Critic sees the draft; a run    *)
(* that returns called Critic and Answer exactly once, Answer on the        *)
(* revised question if there was a revision and on the draft otherwise, and *)
(* returns that question as user_input.                                     *)
C9_StageOrder ==
    /\ \/ IsPrefix(Ops, <<"generate_user_input", "critic_question",
                          "modify_question", "generate_answer">>)
       \/ IsPrefix(Ops, <<"generate_user_input", "critic_question",
                          "generate_answer">>)
    /\ \A i \in 1..Len(calls) :
         calls[i].op = "critic_question" => calls[i].question = "draft"
    /\ spc = "done" =>
         /\ Count("generate_user_input") = 1
         /\ Count("critic_question") = 1
         /\ Count("generate_answer") = 1
         /\ calls[Len(calls)].op = "generate_answer"
         /\ calls[Len(calls)].question =
              (IF Count("modify_question") = 1 THEN "revised" ELSE "draft")
         /\ sample.user_input = calls[Len(calls)].question

C9_Witness ==
    /\ spc = "done"
    /\ Count("modify_question") = 1
    /\ sample.user_input = "revised"
    /\ sample.reference = <<"answer", "revised">>

(* C10.  For n >= 1, once requests are submitted, every request asks for    *)
(* num_per_cluster labels, num_per_cluster is the least number whose        *)
(* product with the number of clusters used reaches n, and so the total     *)
(* requested is at least n.                                                 *)
C10_CeilPerCluster ==
    (n >= 1 /\ Submitted) =>
        /\ Len(kw_list) = Len(node_clusters)
        /\ \A i \in 1..Len(kw_list) : RequestNum(kw_list[i]) = num_per_cluster
        /\ Len(node_clusters) * num_per_cluster >= n
        /\ Len(node_clusters) * (num_per_cluster - 1) < n

\* n = 3 over two clusters: ceil(3 / 2) = 2 per cluster, 4 in total.
C10_Witness ==
    /\ pc = "batched"
    /\ n = 3
    /\ Len(node_clusters) = 2
    /\ num_per_cluster = 2
    /\ \A i \in 1..Len(kw_list) : RequestNum(kw_list[i]) = 2

====
